---- MODULE Spec2Model ----
(***************************************************************************)
(* Model of respawn_cubemap_tool: the DDS codec (dds.py), the VTF codec    *)
(* (vtf.py), and the two index remaps between them (downgrade_terminal.py  *)
(* and extract.py).                                                        *)
(*                                                                         *)
(* Byte strings are kept run-length encoded: a sequence of runs            *)
(* [v |-> byte value, n |-> count], canonical (no empty run, no two        *)
(* adjacent runs of the same value), so that equality of the encodings is  *)
(* equality of the byte strings and file.read(k) is exact to the byte.     *)
(***************************************************************************)
EXTENDS Integers, Sequences, FiniteSets, TLC

VARIABLES
    dds,      \* the DDS object handed to DDS.save_as
    ddsFile,  \* the .dds file on disk
    ddsSave,  \* outcome of the last DDS.save_as
    ddsOut,   \* outcome of the last DDS.from_file
    vtf,      \* the VTF object handed to VTF.save_as
    vtfFile,  \* the .vtf file on disk
    vtfSave,  \* outcome of the last VTF.save_as
    vtfOut,   \* outcome of the last VTF.from_stream
    bsp,      \* what the driver takes from the .bsp (cubemap count, ambient scalars)
    drv,      \* outcome of the downgrade driver (downgrade_terminal.py __main__)
    ext       \* outcome of extract.save_r2_cubemaps_as_dds

vars == <<dds, ddsFile, ddsSave, ddsOut, vtf, vtfFile, vtfSave, vtfOut, bsp, drv, ext>>

ddsVars == <<dds, ddsFile, ddsSave, ddsOut>>
vtfVars == <<vtf, vtfFile, vtfSave, vtfOut>>
drvVars == <<bsp, drv, ext>>

----------------------------------------------------------------------------
(* Bounds of the model *)

MaxMips == 9        \* DDS num_mipmaps ranges over 1..MaxMips
MaxArray == 6       \* DDS array_size ranges over 1..MaxArray
MaxVtfMips == 4     \* VTF num_mipmaps ranges over 1..MaxVtfMips
MaxFrames == 2      \* VTF num_frames ranges over 1..MaxFrames
MaxCubemaps == 2    \* the driver's input holds up to 6 * MaxCubemaps + 1 array slots

----------------------------------------------------------------------------
(* Byte strings *)

Max(a, b) == IF a >= b THEN a ELSE b

BFill(v, n) == IF n <= 0 THEN <<>> ELSE <<[v |-> v, n |-> n]>>

\* (the recursions below split their range in half, so their depth is the
\* logarithm of the number of runs)

RECURSIVE BLenR(_, _, _)
BLenR(s, lo, hi) ==
    IF lo > hi THEN 0
    ELSE IF lo = hi THEN s[lo].n
    ELSE LET mid == (lo + hi) \div 2 IN BLenR(s, lo, mid) + BLenR(s, mid + 1, hi)

\* len(s)
BLen(s) == BLenR(s, 1, Len(s))

\* a + b of two bytes objects
BCat(a, b) ==
    IF a = <<>> THEN b
    ELSE IF b = <<>> THEN a
    ELSE IF a[Len(a)].v = b[1].v
         THEN SubSeq(a, 1, Len(a) - 1)
              \o <<[v |-> b[1].v, n |-> a[Len(a)].n + b[1].n]>>
              \o Tail(b)
         ELSE a \o b

RECURSIVE BJoinR(_, _, _)
BJoinR(parts, lo, hi) ==
    IF lo > hi THEN <<>>
    ELSE IF lo = hi THEN parts[lo]
    ELSE LET mid == (lo + hi) \div 2
         IN BCat(BJoinR(parts, lo, mid), BJoinR(parts, mid + 1, hi))

\* b"".join(parts)
BJoin(parts) == BJoinR(parts, 1, Len(parts))

RECURSIVE BTakeR(_, _, _, _)
BTakeR(s, lo, hi, k) ==
    IF lo > hi \/ k <= 0 THEN <<>>
    ELSE IF lo = hi
    THEN IF s[lo].n <= k THEN <<s[lo]>> ELSE <<[v |-> s[lo].v, n |-> k]>>
    ELSE LET mid == (lo + hi) \div 2
             left == BLenR(s, lo, mid)
         IN IF k <= left THEN BTakeR(s, lo, mid, k)
            ELSE SubSeq(s, lo, mid) \o BTakeR(s, mid + 1, hi, k - left)

\* the first k bytes of s (all of s when it is shorter): what file.read(k) returns
BTake(s, k) == BTakeR(s, 1, Len(s), k)

RECURSIVE BDropR(_, _, _, _)
BDropR(s, lo, hi, k) ==
    IF lo > hi THEN <<>>
    ELSE IF k <= 0 THEN SubSeq(s, lo, hi)
    ELSE IF lo = hi
    THEN IF s[lo].n <= k THEN <<>> ELSE <<[v |-> s[lo].v, n |-> s[lo].n - k]>>
    ELSE LET mid == (lo + hi) \div 2
             left == BLenR(s, lo, mid)
         IN IF k >= left THEN BDropR(s, mid + 1, hi, k - left)
            ELSE BDropR(s, lo, mid, k) \o SubSeq(s, mid + 1, hi)

\* s without its first k bytes: the stream after file.read(k) or file.seek(k)
BDrop(s, k) == BDropR(s, 1, Len(s), k)

\* the byte at 0-based index i of s (s is longer than i)
BAt(s, i) == BTake(BDrop(s, i), 1)[1].v

RECURSIVE SumR(_, _, _)
SumR(s, lo, hi) ==
    IF lo > hi THEN 0
    ELSE IF lo = hi THEN s[lo]
    ELSE LET mid == (lo + hi) \div 2 IN SumR(s, lo, mid) + SumR(s, mid + 1, hi)

SumSeq(s) == SumR(s, 1, Len(s))

RECURSIVE ReadR(_, _, _, _)
ReadR(stream, szs, lo, hi) ==
    IF lo > hi THEN <<>>
    ELSE IF lo = hi THEN <<BTake(stream, szs[lo])>>
    ELSE LET mid == (lo + hi) \div 2
         IN ReadR(stream, szs, lo, mid)
            \o ReadR(BDrop(stream, SumR(szs, lo, mid)), szs, mid + 1, hi)

\* successive file.read(size) calls, one per entry of szs
ReadSeq(stream, szs) == ReadR(stream, szs, 1, Len(szs))

\* struct.pack("I", x), little endian
pack_I(x) ==
    BJoin(<<BFill(x % 256, 1), BFill((x \div 256) % 256, 1),
            BFill((x \div 65536) % 256, 1), BFill((x \div 16777216) % 256, 1)>>)

\* struct.unpack("I", b) of 4 bytes
unpack_I(b) == BAt(b, 0) + 256 * BAt(b, 1) + 65536 * BAt(b, 2) + 16777216 * BAt(b, 3)

(* A Python float is a double; struct's "f" is an IEEE single.  Within one  *)
(* binade a double is modelled as a count x of half units in the last place *)
(* of a single: the doubles a single can hold are the even x, and packing   *)
(* rounds to nearest, ties to even.  The single's ordinal stands for its    *)
(* bit pattern.                                                            *)
F32Bits(x) ==
    LET q == x \div 2
    IN IF x % 2 = 0 THEN q ELSE IF q % 2 = 0 THEN q ELSE q + 1

\* struct.pack("f", x)
pack_f(x) == pack_I(F32Bits(x))

\* struct.unpack("f", b): the double equal to the single
unpack_f(b) == 2 * unpack_I(b)

IsF32(x) == x % 2 = 0

----------------------------------------------------------------------------
(* dds.py *)

DXGI_BC6H_UF16 == 95

\* the literal fields DDS.save_as writes and DDS.from_file asserts
DDS_FIXED == <<"DDS ", 124, 659463, 65536, 1, 32, 4, "DX10", 4198408>>

DDS_HEADER_LEN == 148

\* DDS.__init__
DDS_init ==
    [size |-> <<0, 0>>, num_mipmaps |-> 0, format |-> DXGI_BC6H_UF16,
     resource_dimension |-> 3, misc_flag |-> 0, array_size |-> 1, mipmaps |-> <<>>]

\* what a mutated size function could be: no 4x4 floor
DDS_mip_size_nofloor(i) == (2 ^ i) ^ 2

\* dds.py:89: max(1 << i, 4) ** 2
DDS_mip_size(i) == Max(2 ^ i, 4) ^ 2

\* dds.py:89: mip_sizes = [... for i in range(num_mipmaps)]
DDS_mip_sizes(m) == [i \in 1..m |-> DDS_mip_size(i - 1)]

Reversed(s) == [k \in 1..Len(s) |-> s[Len(s) - k + 1]]

NoDDSFile ==
    [hlen |-> 0, fixed |-> <<>>, size |-> <<0, 0>>, num_mipmaps |-> 0, format |-> 0,
     resource_dimension |-> 0, misc_flag |-> 0, array_size |-> 0, body |-> <<>>]

\* a mutated writer: the mips of every slot written smallest index first
DDS_pixels_forward(d) ==
    BJoin([i \in 1..d.array_size |-> BJoin([k \in 1..d.num_mipmaps |-> d.mipmaps[k]])])

\* dds.py:121-123: for i in range(array_size): for j in reversed(range(num_mipmaps)):
\*                     write(self.mipmaps[j])
DDS_pixels(d) ==
    BJoin([i \in 1..d.array_size |->
             BJoin([k \in 1..d.num_mipmaps |-> d.mipmaps[d.num_mipmaps - k + 1]])])

\* DDS.save_as: the file it leaves and how it ended
DDS_save_as(d) ==
    LET header == [hlen |-> DDS_HEADER_LEN, fixed |-> DDS_FIXED, size |-> d.size,
                   num_mipmaps |-> d.num_mipmaps, format |-> d.format,
                   resource_dimension |-> d.resource_dimension,
                   misc_flag |-> d.misc_flag, array_size |-> d.array_size,
                   body |-> <<>>]
    IN IF d.array_size > 0 /\ d.num_mipmaps > Len(d.mipmaps)
       THEN [status |-> "IndexError", file |-> header]
       ELSE [status |-> "ok", file |-> [header EXCEPT !.body = DDS_pixels(d)]]

\* a mutated reader: the blocks of a slot kept in the order read
DDS_slot_order_as_read(read, m, k) == read[k]

\* dds.py:94: mipmaps[::-1], the block at index k (1-based) of a slot's list
DDS_slot_order(read, m, k) == read[m - k + 1]

\* DDS.from_file
DDS_from_file(f) ==
    LET m == f.num_mipmaps
        a == f.array_size
        \* dds.py:91-93: one read per size of reversed(mip_sizes), per slot
        szs == [n \in 1..(a * m) |-> Reversed(DDS_mip_sizes(m))[((n - 1) % m) + 1]]
        read == ReadSeq(f.body, szs)
        slot(i) == [k \in 1..m |-> read[(i - 1) * m + k]]
        mips == [n \in 1..(a * m) |->
                    DDS_slot_order(slot(((n - 1) \div m) + 1), m, ((n - 1) % m) + 1)]
        failed(e) == [status |-> e, v |-> DDS_init]
    IN IF f.hlen < DDS_HEADER_LEN \/ f.fixed # DDS_FIXED THEN failed("AssertionError")
       ELSE IF f.format # DXGI_BC6H_UF16 THEN failed("ValueError")
       ELSE [status |-> "ok",
             v |-> [size |-> f.size, num_mipmaps |-> m, format |-> f.format,
                    resource_dimension |-> f.resource_dimension,
                    misc_flag |-> f.misc_flag, array_size |-> a, mipmaps |-> mips]]

----------------------------------------------------------------------------
(* vtf.py *)

\* Format (vtf.py:11-41): the members the model uses, by value
Format_NONE == -1
Format_RGBA_8888 == 0
Format_DXT1 == 13
Format_BC6H_UF16 == 66

\* the values Format(x) accepts: -1..26 and 66
IsFormat(x) == (x >= -1 /\ x <= 26) \/ x = 66

\* Flags (vtf.py:44-69), as the integer the IntFlag holds
Flags_CLAMP_S == 4
Flags_CLAMP_T == 8
Flags_NO_LOD == 512
Flags_ENVMAP == 16384

\* Flags.X in flags, for a single-bit X
HasFlag(flags, bit) == (flags \div bit) % 2 = 1

\* Python values a Resource's flags and offset attributes hold
PyInt(n) == [t |-> "int", v |-> n]
PyNone == [t |-> "None", v |-> 0]
\* a bytes object of length 4, by the u32 its bytes spell
PyBytes4(u) == [t |-> "bytes", v |-> u]

\* Resource.valid_tags (vtf.py:88-96); "TMB", "IMG" and "SPR" stand for the
\* tags \x01\0\0, \x30\0\0 and \x10\0\0
ValidTags == {"TMB", "IMG", "SPR", "CRC", "CMA", "LOD", "TSO", "KVD"}

TagName(tag) ==
    CASE tag = "TMB" -> "Thumbnail"
      [] tag = "IMG" -> "Image Data"
      [] tag = "SPR" -> "Sprite Sheet"
      [] tag = "CRC" -> "Cyclic Redundancy Check"
      [] tag = "CMA" -> "Cubemap Multiply Ambient"
      [] tag = "LOD" -> "Level of Detail Information"
      [] tag = "TSO" -> "Extended Flags"
      [] tag = "KVD" -> "Key Values Data"
      [] OTHER -> "?"

\* the resources dict: a sequence of entries in insertion order, one per key
HasRes(res, name) == \E i \in 1..Len(res) : res[i].name = name
ResAt(res, name) == res[CHOOSE i \in 1..Len(res) : res[i].name = name]

\* self.resources[name].flags = fl; self.resources[name].offset = off
ResSet(res, name, fl, off) ==
    [i \in 1..Len(res) |->
        IF res[i].name = name THEN [res[i] EXCEPT !.flags = fl, !.offset = off] ELSE res[i]]

\* self.resources[name].offset = off
ResSetOffset(res, name, off) ==
    [i \in 1..Len(res) |->
        IF res[i].name = name THEN [res[i] EXCEPT !.offset = off] ELSE res[i]]

\* whether struct.pack("3sBI", tag, flags, offset) succeeds (Resource.as_bytes)
Resource_packs(r) ==
    /\ r.flags.t = "int" /\ r.flags.v >= 0 /\ r.flags.v < 256
    /\ r.offset.t = "int" /\ r.offset.v >= 0 /\ r.offset.v \div 65536 < 65536

\* Resource.as_bytes: the descriptor as it lies in the table
Resource_as_bytes(r) == [tag |-> r.tag, flags |-> r.flags.v, payload |-> r.offset.v]

\* a mutated CMA.as_bytes: the length prefix left out
CMA_as_bytes_noprefix(data) ==
    IF Len(data) = 1 THEN <<>>
    ELSE BJoin([i \in 1..Len(data) |-> pack_f(data[i])])

\* CMA.as_bytes (vtf.py:314-317)
CMA_as_bytes(data) ==
    IF Len(data) = 1 THEN <<>>
    ELSE BCat(pack_I(Len(data) * 4), BJoin([i \in 1..Len(data) |-> pack_f(data[i])]))

NoCMA == [present |-> FALSE, data |-> <<>>]

\* the magic and the four runs of zero padding of the header
VTF_FIXED == <<"VTF", 0, 0, 0, 0>>

VTF_CORE_LEN == 80
VTF_DESC_LEN == 8

\* the bytes of the core header before the format field (an "I")
VTF_FORMAT_POS == 52

\* a mutated key order: the cubemap loop outside the mip loop
KeyOrder_cubemap_outer(m, n) ==
    [k \in 1..(m * n * 6) |->
        <<((k - 1) \div 6) % m, (k - 1) \div (m * 6), (k - 1) % 6>>]

\* the (mip, cubemap, side) keys in the order of the comprehensions at
\* vtf.py:220-224 and vtf.py:300-304
KeyOrder(m, n) ==
    [k \in 1..(m * n * 6) |->
        <<(k - 1) \div (n * 6), ((k - 1) \div 6) % n, (k - 1) % 6>>]

\* a mutated profile test: any other profile read with the BC6H sizes
VTF_mip_sizes_any(format, size, m) ==
    IF format = Format_RGBA_8888 /\ size = <<64, 64>>
    THEN [known |-> TRUE, sizes |-> [i \in 1..m |-> ((2 ^ (i - 1)) ^ 2) * 4]]
    ELSE [known |-> TRUE, sizes |-> [i \in 1..m |-> Max(2 ^ (i - 1), 4) ^ 2]]

\* vtf.py:211-217: mip_sizes of the two recognized profiles; any other profile
\* takes the early return
VTF_mip_sizes(format, size, m) ==
    IF format = Format_RGBA_8888 /\ size = <<64, 64>>
    THEN [known |-> TRUE, sizes |-> [i \in 1..m |-> ((2 ^ (i - 1)) ^ 2) * 4]]
    ELSE IF format = Format_BC6H_UF16 /\ size = <<256, 256>>
    THEN [known |-> TRUE, sizes |-> [i \in 1..m |-> Max(2 ^ (i - 1), 4) ^ 2]]
    ELSE [known |-> FALSE, sizes |-> <<>>]

NoVTFFile ==
    [clen |-> 0, fixed |-> VTF_FIXED, version |-> <<0, 0>>, header_size |-> 0,
     size |-> <<0, 0>>, flags |-> 0, num_frames |-> 0, first_frame |-> 0,
     reflectivity |-> <<0, 0, 0>>, bumpmap_scale |-> 0, format |-> 0,
     num_mipmaps |-> 0, low_res_format |-> 0, low_res_size |-> <<0, 0>>,
     mipmap_depth |-> 0, num_resources |-> 0, table |-> <<>>, body |-> <<>>]

\* the number of bytes in the file
VTF_file_len(f) == f.clen + VTF_DESC_LEN * Len(f.table) + BLen(f.body)

\* a mutated offset step: the ambient block counted without its length prefix
VTF_cma_span_noprefix(n) == n * 4

\* vtf.py:287: offset += (self.num_frames + 1) * 4
VTF_cma_span(n) == (n + 1) * 4

\* a mutated table writer: Image Data moved to the end of the table
VTF_table_image_last(res) ==
    LET img == SelectSeq(res, LAMBDA r : r.name = "Image Data")
        rest == SelectSeq(res, LAMBDA r : r.name # "Image Data")
        all == rest \o img
    IN [i \in 1..Len(all) |-> Resource_as_bytes(all[i])]

\* vtf.py:291: b"".join(r.as_bytes() for r in self.resources.values())
VTF_table(res) == [i \in 1..Len(res) |-> Resource_as_bytes(res[i])]

\* a mutated pixel writer: a missing key skipped instead of raising
VTF_pixels_skip_missing(v) ==
    LET keys == KeyOrder(v.num_mipmaps, v.num_frames)
    IN [ok |-> TRUE,
        bytes |-> BJoin([k \in 1..Len(keys) |->
                    IF keys[k] \in DOMAIN v.mipmaps THEN v.mipmaps[keys[k]] ELSE <<>>])]

\* vtf.py:300-304: the joined blocks, or KeyError when a key is absent
VTF_pixels(v) ==
    LET keys == KeyOrder(v.num_mipmaps, v.num_frames)
    IN IF \E k \in 1..Len(keys) : keys[k] \notin DOMAIN v.mipmaps
       THEN [ok |-> FALSE, bytes |-> <<>>]
       ELSE [ok |-> TRUE, bytes |-> BJoin([k \in 1..Len(keys) |-> v.mipmaps[keys[k]]])]

\* a mutated save: the check of the Image Data offset left out
VTF_offset_unchecked(offset, tell) == TRUE

\* vtf.py:298: assert self.resources["Image Data"].offset == vtf_file.tell()
VTF_offset_checked(offset, tell) == offset = tell

\* a mutated save: the computed offsets kept out of the container
VTF_keep_resources(v, res) == v

\* vtf.py:281-290: the assignments to self.resources[...] land in the container
VTF_store_resources(v, res) == [v EXCEPT !.resources = res]

(* VTF.save_as (vtf.py:246-304) on container v with `old` the file at the   *)
(* target path: how it ended, the file it leaves, the container afterwards  *)
(* and the position of the write cursor when the pixel data is written.     *)
VTF_save_as(v, old) ==
    LET header_size == VTF_CORE_LEN + Len(v.resources) * VTF_DESC_LEN
        core == [clen |-> VTF_CORE_LEN, fixed |-> VTF_FIXED, version |-> v.version,
                 header_size |-> header_size, size |-> v.size, flags |-> v.flags,
                 num_frames |-> v.num_frames, first_frame |-> v.first_frame,
                 reflectivity |-> [i \in 1..3 |-> 2 * F32Bits(v.reflectivity[i])],
                 bumpmap_scale |-> 2 * F32Bits(v.bumpmap_scale),
                 format |-> v.format, num_mipmaps |-> v.num_mipmaps,
                 low_res_format |-> v.low_res_format, low_res_size |-> v.low_res_size,
                 mipmap_depth |-> v.mipmap_depth, num_resources |-> Len(v.resources),
                 table |-> <<>>, body |-> <<>>]
        hasCMA == HasRes(v.resources, "Cubemap Multiply Ambient")
        hasImg == HasRes(v.resources, "Image Data")
        inline == v.num_frames = 1
        \* vtf.py:280-287
        res1 == IF ~hasCMA THEN v.resources
                ELSE IF inline
                THEN ResSet(v.resources, "Cubemap Multiply Ambient",
                            PyInt(2), PyBytes4(F32Bits(v.cma.data[1])))
                ELSE ResSet(v.resources, "Cubemap Multiply Ambient",
                            PyInt(0), PyInt(header_size))
        offset == IF hasCMA /\ ~inline
                  THEN header_size + VTF_cma_span(v.num_frames)
                  ELSE header_size
        \* vtf.py:289-290
        res2 == IF hasImg THEN ResSetOffset(res1, "Image Data", PyInt(offset)) ELSE res1
        v2 == VTF_store_resources(v, res2)
        withTable == [core EXCEPT !.table = VTF_table(res2)]
        cmaBytes == IF v.cma.present THEN CMA_as_bytes(v.cma.data) ELSE <<>>
        withCMA == [withTable EXCEPT !.body = cmaBytes]
        tell == header_size + BLen(cmaBytes)
        pixels == VTF_pixels(v)
        end(e, f, w) == [status |-> e, file |-> f, vtf |-> w, pixel_pos |-> 0]
    IN IF v.version # <<7, 5>> THEN end("AssertionError", old, v)
       \* vtf.py:262: write_struct "I" of Format.NONE.value = -1
       ELSE IF v.format < 0
       THEN end("struct.error", [core EXCEPT !.clen = VTF_FORMAT_POS], v)
       ELSE IF HasRes(v.resources, "Cyclic Redundancy Check")
       THEN end("NotImplementedError", core, v)
       ELSE IF hasCMA /\ ~v.cma.present THEN end("AssertionError", core, v)
       ELSE IF hasCMA /\ Len(v.cma.data) # v.num_frames THEN end("AssertionError", core, v)
       ELSE IF \E i \in 1..Len(res2) : ~Resource_packs(res2[i])
       THEN end("struct.error", core, v2)
       ELSE IF ~hasImg THEN end("AssertionError", withCMA, v2)
       ELSE IF ~VTF_offset_checked(ResAt(res2, "Image Data").offset.v, tell)
       THEN end("AssertionError", withCMA, v2)
       ELSE IF ~HasFlag(v.flags, Flags_ENVMAP) THEN end("AssertionError", withCMA, v2)
       ELSE IF ~pixels.ok THEN end("KeyError", withCMA, v2)
       ELSE [status |-> "ok",
             file |-> [withCMA EXCEPT !.body = BCat(cmaBytes, pixels.bytes)],
             vtf |-> v2, pixel_pos |-> tell]

\* VTF.__init__ (vtf.py:141-149), with the attributes from_stream sets at their
\* values in the file
VTF_of_header(f, res, cma, mips) ==
    [version |-> f.version, size |-> f.size, flags |-> f.flags,
     num_frames |-> f.num_frames, first_frame |-> f.first_frame,
     reflectivity |-> f.reflectivity, bumpmap_scale |-> f.bumpmap_scale,
     format |-> f.format, num_mipmaps |-> f.num_mipmaps,
     low_res_format |-> f.low_res_format, low_res_size |-> f.low_res_size,
     mipmap_depth |-> f.mipmap_depth, resources |-> res, mipmaps |-> mips, cma |-> cma]

NoMipmaps == [k \in {} |-> <<>>]

VTF_init ==
    [version |-> <<7, 5>>, size |-> <<0, 0>>, flags |-> 0, num_frames |-> 0,
     first_frame |-> 0, reflectivity |-> <<0, 0, 0>>, bumpmap_scale |-> 0,
     format |-> Format_NONE, num_mipmaps |-> 0, low_res_format |-> Format_NONE,
     low_res_size |-> <<0, 0>>, mipmap_depth |-> 0, resources |-> <<>>,
     mipmaps |-> NoMipmaps, cma |-> NoCMA]

\* the bytes of file f from absolute position pos on (pos at or after the table)
VTF_seek(f, pos) == BDrop(f.body, pos - (f.clen + VTF_DESC_LEN * Len(f.table)))

\* Resource.__init__ (vtf.py:98-106) on a descriptor read from the table
Resource_accepts(d) == d.tag \in ValidTags /\ (d.tag = "CRC" => d.flags = 2)

Resource_of(d) ==
    IF d.tag = "CRC"
    THEN [name |-> TagName(d.tag), tag |-> d.tag, flags |-> PyNone, offset |-> PyInt(d.payload)]
    ELSE [name |-> TagName(d.tag), tag |-> d.tag, flags |-> PyInt(d.flags),
          offset |-> PyInt(d.payload)]

(* CMA.from_vtf_stream (vtf.py:325-335) for descriptor r of file f holding    *)
(* n frames.  With flags == 0x02 it calls struct.pack("f", <bytes>), which    *)
(* raises struct.error.                                                       *)
CMA_from_vtf_stream(f, r, n) ==
    LET raw == BTake(VTF_seek(f, r.offset.v), 4 + 4 * n)
        size == unpack_I(BTake(raw, 4))
        data == [i \in 1..n |-> unpack_f(BTake(BDrop(raw, 4 * i), 4))]
    IN IF r.flags.v = 2 THEN [status |-> "struct.error", cma |-> NoCMA]
       ELSE IF BLen(raw) < 4 + 4 * n THEN [status |-> "struct.error", cma |-> NoCMA]
       ELSE IF size # n * 4 THEN [status |-> "AssertionError", cma |-> NoCMA]
       ELSE [status |-> "ok", cma |-> [present |-> TRUE, data |-> data]]

\* VTF.from_stream (vtf.py:170-226)
VTF_from_stream(f) ==
    LET n == f.num_resources
        res == [i \in 1..n |-> Resource_of(f.table[i])]
        cmaR == CMA_from_vtf_stream(f, ResAt(res, "Cubemap Multiply Ambient"),
                                    f.num_frames)
        hasCMA == HasRes(res, "Cubemap Multiply Ambient")
        cma == IF hasCMA THEN cmaR.cma ELSE NoCMA
        keys == KeyOrder(f.num_mipmaps, f.num_frames)
        ms == VTF_mip_sizes(f.format, f.size, f.num_mipmaps)
        szs == [k \in 1..Len(keys) |-> ms.sizes[keys[k][1] + 1]]
        read == ReadSeq(VTF_seek(f, ResAt(res, "Image Data").offset.v), szs)
        mips == [key \in {keys[k] : k \in 1..Len(keys)} |->
                    read[key[1] * f.num_frames * 6 + key[2] * 6 + key[3] + 1]]
        failed(e) == [status |-> e, v |-> VTF_init]
    IN IF f.clen = 0 \/ f.fixed[1] # "VTF" THEN failed("AssertionError")
       ELSE IF f.version # <<7, 5>> THEN failed("NotImplementedError")
       ELSE IF f.clen < VTF_CORE_LEN THEN failed("struct.error")
       ELSE IF f.fixed[2] # 0 \/ f.fixed[3] # 0 THEN failed("AssertionError")
       ELSE IF ~IsFormat(f.format) \/ ~IsFormat(f.low_res_format) THEN failed("ValueError")
       ELSE IF f.fixed[4] # 0 \/ f.fixed[5] # 0 THEN failed("AssertionError")
       ELSE IF Len(f.table) < n THEN failed("struct.error")
       ELSE IF \E i \in 1..n : ~Resource_accepts(f.table[i]) THEN failed("AssertionError")
       ELSE IF VTF_CORE_LEN + VTF_DESC_LEN * n # f.header_size THEN failed("AssertionError")
       ELSE IF hasCMA /\ cmaR.status # "ok" THEN failed(cmaR.status)
       ELSE IF ~HasFlag(f.flags, Flags_ENVMAP) THEN failed("AssertionError")
       ELSE IF f.low_res_format # Format_NONE THEN failed("AssertionError")
       ELSE IF f.low_res_size # <<0, 0>> THEN failed("AssertionError")
       ELSE IF f.first_frame # 0 THEN failed("AssertionError")
       ELSE IF ~HasRes(res, "Image Data") THEN failed("AssertionError")
       ELSE IF ~ms.known
       THEN [status |-> "ok", v |-> VTF_of_header(f, res, cma, NoMipmaps)]
       ELSE [status |-> "ok", v |-> VTF_of_header(f, res, cma, mips)]

----------------------------------------------------------------------------
(* The containers and files the operations are applied to *)

\* bytes of the BC6H block of the level whose side is 2^j texels (spec, 4.1)
BlockBytes(j) == IF j <= 2 THEN 16 ELSE 4 ^ j

\* bytes of the RGBA_8888 block of the level whose side is 2^j texels
RGBABytes(j) == 4 * (4 ^ j)

(* A DDS object as a producer assembles it: a slots of m blocks, each slot  *)
(* smallest level first (lay = "up", what DDS.from_file yields) or largest  *)
(* level first (lay = "down"); every block filled with a byte of its own    *)
(* (con = "distinct") or all with the same byte; cnt = "one" holds the      *)
(* blocks of a single slot only.                                            *)
DDSObject(m, a, lay, con, cnt, misc) ==
    LET count == IF cnt = "all" THEN a * m ELSE m
        level(n) == IF lay = "up" THEN (n - 1) % m ELSE m - 1 - ((n - 1) % m)
    IN [size |-> <<256, 256>>, num_mipmaps |-> m, format |-> DXGI_BC6H_UF16,
        resource_dimension |-> 3, misc_flag |-> misc, array_size |-> a,
        mipmaps |-> [n \in 1..count |->
                        BFill(IF con = "distinct" THEN n ELSE 7, BlockBytes(level(n)))]]

DDSObjects ==
    {DDSObject(m, a, lay, con, cnt, misc) :
        m \in 1..MaxMips, a \in 1..MaxArray, lay \in {"up", "down"},
        con \in {"distinct", "same"}, cnt \in {"all", "one"}, misc \in {0, 4}}

(* A .dds file from elsewhere (texconv, an .rpak): per slot the levels      *)
(* largest first, the n-th block of the file filled with byte n; cut bytes  *)
(* are missing from its end.                                                *)
DDSFileOf(m, a, magic, fmt, cut) ==
    LET full == BJoin([n \in 1..(a * m) |-> BFill(n, BlockBytes(m - 1 - ((n - 1) % m)))])
    IN [hlen |-> DDS_HEADER_LEN, fixed |-> [DDS_FIXED EXCEPT ![1] = magic],
        size |-> <<256, 256>>, num_mipmaps |-> m, format |-> fmt,
        resource_dimension |-> 3, misc_flag |-> 0, array_size |-> a,
        body |-> BTake(full, BLen(full) - cut)]

DDSFiles ==
    {DDSFileOf(m, a, magic, fmt, cut) :
        m \in 1..MaxMips, a \in 1..MaxArray, magic \in {"DDS ", "DDZ "},
        fmt \in {DXGI_BC6H_UF16, 98}, cut \in {0, 1}}

DriverFlags == Flags_CLAMP_S + Flags_CLAMP_T + Flags_NO_LOD + Flags_ENVMAP

\* the resources mappings a producer builds, by insertion order; the offset of
\* Image Data preset to header_size as the drivers do
VTFResources(lay) ==
    LET img(k) == [name |-> "Image Data", tag |-> "IMG", flags |-> PyInt(0),
                   offset |-> PyInt(VTF_CORE_LEN + VTF_DESC_LEN * k)]
        cma == [name |-> "Cubemap Multiply Ambient", tag |-> "CMA", flags |-> PyNone,
                offset |-> PyNone]
        lod == [name |-> "Level of Detail Information", tag |-> "LOD",
                flags |-> PyInt(2), offset |-> PyInt(0)]
        crc == [name |-> "Cyclic Redundancy Check", tag |-> "CRC", flags |-> PyNone,
                offset |-> PyInt(0)]
    IN CASE lay = "img" -> <<img(1)>>
         [] lay = "img_cma" -> <<img(2), cma>>
         [] lay = "cma_img" -> <<cma, img(2)>>
         [] lay = "img_lod_cma" -> <<img(3), lod, cma>>
         [] lay = "cma" -> <<cma>>
         [] lay = "crc_img" -> <<crc, img(2)>>
         [] OTHER -> <<>>

VTFLayouts == {"img", "img_cma", "cma_img", "img_lod_cma", "cma", "crc_img", "none"}

(* A VTF object as a producer assembles it (downgrade_terminal.py:69-91):   *)
(* n frames of m levels, level i of the mapping holding BlockBytes(i)       *)
(* bytes, every block filled with a byte of its own; miss names a key left  *)
(* out; cm the ambient table; dev one departure from the driver's header.   *)
VTFObject(n, m, lay, cm, miss, dev) ==
    LET keys == KeyOrder(m, n)
        gone == CASE miss = "first" -> {keys[1]}
                  [] miss = "last" -> {keys[Len(keys)]}
                  [] OTHER -> {}
    IN [version |-> IF dev = "version" THEN <<7, 2>> ELSE <<7, 5>>,
        size |-> <<256, 256>>,
        flags |-> IF dev = "no_envmap" THEN DriverFlags - Flags_ENVMAP ELSE DriverFlags,
        num_frames |-> n, first_frame |-> 0,
        reflectivity |-> IF dev = "double" THEN <<3, 3, 3>> ELSE <<4, 4, 4>>,
        bumpmap_scale |-> 8,
        format |-> IF dev = "format_none" THEN Format_NONE ELSE Format_BC6H_UF16,
        num_mipmaps |-> m, low_res_format |-> Format_NONE, low_res_size |-> <<0, 0>>,
        mipmap_depth |-> 1, resources |-> VTFResources(lay),
        mipmaps |-> [key \in {keys[k] : k \in 1..Len(keys)} \ gone |->
                        BFill(1 + key[1] * n * 6 + key[2] * 6 + key[3], BlockBytes(key[1]))],
        cma |-> CASE cm = "frames" -> [present |-> TRUE, data |-> [i \in 1..n |-> 20 + 2 * i]]
                  [] cm = "single" -> [present |-> TRUE, data |-> <<22>>]
                  [] OTHER -> NoCMA]

VTFObjects ==
    {VTFObject(n, m, lay, cm, miss, dev) :
        n \in 1..MaxFrames, m \in 1..MaxVtfMips, lay \in VTFLayouts,
        cm \in {"frames", "single", "none"}, miss \in {"none", "first", "last"},
        dev \in {"none", "version", "no_envmap", "double", "format_none"}}

\* the descriptor table of a .vtf file from elsewhere, for n frames
VTFFileTable(lay, n) ==
    LET hs(k) == VTF_CORE_LEN + VTF_DESC_LEN * k
        img(off) == [tag |-> "IMG", flags |-> 0, payload |-> off]
        cma(off) == [tag |-> "CMA", flags |-> 0, payload |-> off]
    IN CASE lay = "img" -> <<img(hs(1))>>
         [] lay = "cma_img" -> <<cma(hs(2)), img(hs(2) + 4 + 4 * n)>>
         [] lay = "img_cma" -> <<img(hs(2) + 4 + 4 * n), cma(hs(2))>>
         [] lay = "inline_img" -> <<[tag |-> "CMA", flags |-> 2, payload |-> 11], img(hs(2))>>
         [] lay = "cma" -> <<cma(hs(1))>>
         [] lay = "crc_img" -> <<[tag |-> "CRC", flags |-> 2, payload |-> 99], img(hs(2))>>
         [] lay = "bad_tag" -> <<[tag |-> "XYZ", flags |-> 0, payload |-> 0], img(hs(2))>>
         [] OTHER -> <<>>

VTFFileLayouts ==
    {"img", "cma_img", "img_cma", "inline_img", "cma", "crc_img", "bad_tag", "none"}

(* A .vtf file from elsewhere (a game's PakFile): a version 7.5 header, the *)
(* table, the ambient block when the table points at one, then the pixel    *)
(* data: the blocks of a recognized profile in file order, each filled with *)
(* a byte of its own, or 24 bytes of another profile; cut bytes are missing *)
(* from its end.                                                            *)
VTFFileOf(fmt, side, env, ff, lrf, lrs, lay, n, m, cut) ==
    LET table == VTFFileTable(lay, n)
        outline == \E i \in 1..Len(table) : table[i].tag = "CMA" /\ table[i].flags = 0
        amb == IF outline
               THEN BCat(pack_I(4 * n), BJoin([i \in 1..n |-> pack_f(20 + 2 * i)]))
               ELSE <<>>
        keys == KeyOrder(m, n)
        px == IF fmt = Format_BC6H_UF16 /\ side = 256
              THEN BJoin([k \in 1..Len(keys) |-> BFill(k, BlockBytes(keys[k][1]))])
              ELSE IF fmt = Format_RGBA_8888 /\ side = 64
              THEN BJoin([k \in 1..Len(keys) |-> BFill(k, RGBABytes(keys[k][1]))])
              ELSE BFill(9, 24)
        full == BCat(amb, px)
    IN [clen |-> VTF_CORE_LEN, fixed |-> VTF_FIXED, version |-> <<7, 5>>,
        header_size |-> VTF_CORE_LEN + VTF_DESC_LEN * Len(table),
        size |-> <<side, side>>,
        flags |-> IF env THEN DriverFlags ELSE DriverFlags - Flags_ENVMAP,
        num_frames |-> n, first_frame |-> ff, reflectivity |-> <<4, 4, 4>>,
        bumpmap_scale |-> 8, format |-> fmt, num_mipmaps |-> m,
        low_res_format |-> lrf, low_res_size |-> lrs, mipmap_depth |-> 1,
        num_resources |-> Len(table), table |-> table,
        body |-> BTake(full, BLen(full) - cut)]

VTFFiles ==
    {VTFFileOf(fmt, side, env, ff, lrf, lrs, lay, n, m, cut) :
        fmt \in {Format_BC6H_UF16, Format_RGBA_8888, Format_DXT1, 30},
        side \in {64, 256}, env \in BOOLEAN, ff \in {0, 1},
        lrf \in {Format_NONE, Format_DXT1}, lrs \in {<<0, 0>>, <<16, 16>>},
        lay \in VTFFileLayouts, n \in 1..MaxFrames, m \in {1, MaxVtfMips},
        cut \in {0, 1}}

----------------------------------------------------------------------------
(* downgrade_terminal.py and extract.py *)

\* what VTF.save_as reports before it has run
NoVTFSave == [status |-> "none", pixel_pos |-> 0]

\* downgrade_terminal.py:38-39, 41: the key array_index and mip_index are stored under
A_to_B_key(array_index, mip_index) == <<mip_index, array_index \div 6, array_index % 6>>

(* downgrade_terminal.py:36-41: the remap loop over a DDS value d.  Step x  *)
(* of the loop handles array_index = x div num_mipmaps and mip_index =       *)
(* x mod num_mipmaps; as in a dict, the last assignment to a key stands.     *)
A_to_B(d) ==
    LET m == d.num_mipmaps
        steps == 0..(d.array_size * m - 1)
        key(x) == A_to_B_key(x \div m, x % m)
        last(k) == CHOOSE x \in steps :
                       key(x) = k /\ \A y \in steps : key(y) = k => y <= x
    IN [k \in {key(x) : x \in steps} |-> d.mipmaps[last(k) + 1]]

\* downgrade_terminal.py:69-91: r2_vtf as the driver builds it
Driver_vtf(d, b, r2_mips) ==
    [version |-> <<7, 5>>, size |-> <<256, 256>>, flags |-> DriverFlags,
     num_frames |-> d.array_size \div 6, first_frame |-> 0,
     reflectivity |-> <<3, 3, 3>>, bumpmap_scale |-> 8,
     format |-> Format_BC6H_UF16, num_mipmaps |-> 9,
     low_res_format |-> Format_NONE, low_res_size |-> <<0, 0>>, mipmap_depth |-> 1,
     resources |-> <<[name |-> "Image Data", tag |-> "IMG", flags |-> PyInt(0),
                      offset |-> PyInt(VTF_CORE_LEN + 2 * VTF_DESC_LEN)],
                     [name |-> "Cubemap Multiply Ambient", tag |-> "CMA",
                      flags |-> PyNone, offset |-> PyNone]>>,
     mipmaps |-> r2_mips, cma |-> [present |-> TRUE, data |-> b.ambient]]

(* downgrade_terminal.py __main__ on the .dds file f, the .bsp data b and   *)
(* the file `old` at the output path: how the script ended, the DDS it read, *)
(* the mapping it built, and the container and file it left.                 *)
Downgrade_main(f, b, old) ==
    LET r == DDS_from_file(f)
        d == r.v
        r2_mips == A_to_B(d)
        v == Driver_vtf(d, b, r2_mips)
        sv == VTF_save_as(v, old)
        stop(e, dd, mm) ==
            [status |-> e, dds |-> dd, r2_mips |-> mm, vtf |-> VTF_init, file |-> old,
             save |-> NoVTFSave]
    IN IF r.status # "ok" THEN stop(r.status, DDS_init, NoMipmaps)
       ELSE IF \/ d.format # DXGI_BC6H_UF16 \/ d.num_mipmaps # 9
               \/ d.resource_dimension # 3 \/ d.size # <<256, 256>>
               \/ Len(d.mipmaps) # d.array_size * d.num_mipmaps
       THEN stop("AssertionError", d, NoMipmaps)
       ELSE IF b.cubemaps = 0 THEN stop("exit", d, r2_mips)
       ELSE IF Len(b.ambient) # b.cubemaps THEN stop("AssertionError", d, r2_mips)
       ELSE IF b.cubemaps # d.array_size \div 6 THEN stop("AssertionError", d, r2_mips)
       ELSE [status |-> sv.status, dds |-> d, r2_mips |-> r2_mips, vtf |-> sv.vtf,
             file |-> sv.file,
             save |-> [status |-> sv.status, pixel_pos |-> sv.pixel_pos]]

(* extract.save_r2_cubemaps_as_dds (extract.py:21-35) on container v: after  *)
(* the assertion on the format, line 24 evaluates vtf.CMA.from_vtf, an       *)
(* attribute class CMA does not have (it has from_data and                   *)
(* from_vtf_stream): AttributeError, before any DDS is built or saved.       *)
save_r2_cubemaps_as_dds(v) ==
    IF v.format # Format_BC6H_UF16
    THEN [status |-> "AssertionError", files |-> <<>>]
    ELSE [status |-> "AttributeError", files |-> <<>>]

----------------------------------------------------------------------------
(* Operations *)

NoDDSOut == [status |-> "none", v |-> DDS_init]
NoVTFOut == [status |-> "none", v |-> VTF_init]
NoBsp == [cubemaps |-> 0, ambient |-> <<>>]
NoDrv == [status |-> "none", r2_mips |-> NoMipmaps]
NoExt == [status |-> "none", files |-> <<>>]

DDSIdle == dds = DDS_init /\ ddsFile = NoDDSFile /\ ddsSave = "none" /\ ddsOut = NoDDSOut
VTFIdle == vtf = VTF_init /\ vtfFile = NoVTFFile /\ vtfSave = NoVTFSave /\ vtfOut = NoVTFOut
DrvIdle == bsp = NoBsp /\ drv = NoDrv /\ ext = NoExt

\* dds_.save_as(path): the file is replaced, the object is left alone
DoDDSSaveAs ==
    /\ ddsSave' = DDS_save_as(dds).status
    /\ ddsFile' = DDS_save_as(dds).file
    /\ ddsOut' = NoDDSOut
    /\ UNCHANGED <<dds, vtfVars, drvVars>>

\* DDS.from_file(path) of the file on disk
DoDDSFromFile ==
    /\ ddsFile # NoDDSFile
    /\ ddsOut' = DDS_from_file(ddsFile)
    /\ UNCHANGED <<dds, ddsFile, ddsSave, vtfVars, drvVars>>

InitDDS ==
    /\ \/ dds \in DDSObjects /\ ddsFile = NoDDSFile
       \/ dds = DDS_init /\ ddsFile \in DDSFiles
    /\ ddsSave = "none" /\ ddsOut = NoDDSOut
    /\ VTFIdle /\ DrvIdle

NextDDS == DoDDSSaveAs \/ DoDDSFromFile

SpecDDS == InitDDS /\ [][NextDDS]_vars

\* vtf_.save_as(path)
DoVTFSaveAs ==
    LET r == VTF_save_as(vtf, vtfFile)
    IN /\ vtfSave' = [status |-> r.status, pixel_pos |-> r.pixel_pos]
       /\ vtfFile' = r.file
       /\ vtf' = r.vtf
       /\ vtfOut' = NoVTFOut
       /\ UNCHANGED <<ddsVars, drvVars>>

\* VTF.from_file(path) of the file on disk
DoVTFFromFile ==
    /\ vtfFile # NoVTFFile
    /\ vtfOut' = VTF_from_stream(vtfFile)
    /\ UNCHANGED <<vtf, vtfFile, vtfSave, ddsVars, drvVars>>

InitVTF ==
    /\ \/ vtf \in VTFObjects /\ vtfFile = NoVTFFile
       \/ vtf = VTF_init /\ vtfFile \in VTFFiles
    /\ vtfSave = NoVTFSave /\ vtfOut = NoVTFOut
    /\ DDSIdle /\ DrvIdle

NextVTF == DoVTFSaveAs \/ DoVTFFromFile

SpecVTF == InitVTF /\ [][NextVTF]_vars

\* the .dds files the driver is pointed at: 9 or 8 levels, whole cubemaps or not
DriverDDSFiles ==
    {DDSFileOf(m, a, "DDS ", DXGI_BC6H_UF16, 0) :
        m \in {8, 9}, a \in 1..(6 * MaxCubemaps + 1)}

\* CUBEMAPS and CUBEMAPS_AMBIENT_RCP of the .bsp the driver is pointed at
DriverBsps ==
    {[cubemaps |-> c, ambient |-> [i \in 1..k |-> 20 + 2 * i]] :
        c \in 0..MaxCubemaps, k \in 0..MaxCubemaps}

\* python downgrade_terminal.py
DoDowngrade ==
    LET r == Downgrade_main(ddsFile, bsp, vtfFile)
    IN /\ drv.status = "none"
       /\ drv' = [status |-> r.status, r2_mips |-> r.r2_mips]
       /\ dds' = r.dds
       /\ vtf' = r.vtf
       /\ vtfFile' = r.file
       /\ vtfSave' = r.save
       /\ UNCHANGED <<ddsFile, ddsSave, ddsOut, vtfOut, bsp, ext>>

\* extract.save_r2_cubemaps_as_dds(vtf_) on the container the driver built
DoExtract ==
    /\ vtf # VTF_init
    /\ ext' = save_r2_cubemaps_as_dds(vtf)
    /\ UNCHANGED <<ddsVars, vtfVars, bsp, drv>>

InitRemap ==
    /\ dds = DDS_init /\ ddsFile \in DriverDDSFiles
    /\ ddsSave = "none" /\ ddsOut = NoDDSOut
    /\ VTFIdle
    /\ bsp \in DriverBsps /\ drv = NoDrv /\ ext = NoExt

NextRemap == DoDowngrade \/ DoExtract

SpecRemap == InitRemap /\ [][NextRemap]_vars

----------------------------------------------------------------------------
(* Properties of the DDS codec, checked under SpecDDS *)

\* the total pixel bytes a BC6H file of a slots of m levels holds
DDSPixelBytes(m, a) == a * SumSeq([j \in 1..m |-> BlockBytes(j - 1)])

\* a DDS value DDS.from_file can yield: a * m blocks, block k (0-based) of each
\* slot holding its level's BlockBytes(k) bytes
DDSValid(d) ==
    /\ d.format = DXGI_BC6H_UF16
    /\ d.num_mipmaps <= 12
    /\ d.array_size >= 1
    /\ Len(d.mipmaps) = d.array_size * d.num_mipmaps
    /\ \A n \in 1..Len(d.mipmaps) :
           BLen(d.mipmaps[n]) = BlockBytes((n - 1) % d.num_mipmaps)

(* C1: for every valid BC6H DDS value c (array_size >= 1, array_size > 1     *)
(* included), DDS.from_file of the bytes DDS.save_as(c) wrote yields a value *)
(* equal to c in every field and in the content and order of every block.   *)
C1_RoundTrip ==
    (DDSValid(dds) /\ ddsSave = "ok" /\ ddsOut.status # "none")
        => (ddsOut.status = "ok" /\ ddsOut.v = dds)

C8_BlockSize ==
    LET m == ddsFile.num_mipmaps
        sz == DDS_mip_sizes(m)
    IN /\ sz = VTF_mip_sizes(Format_BC6H_UF16, <<256, 256>>, m).sizes
       /\ \A j \in 1..(m - 1) : sz[j] <= sz[j + 1]
       /\ \A j \in 1..m : (sz[j] = 16) <=> (j - 1 \in {0, 1, 2})
       /\ \A j \in 1..m : sz[j] = BlockBytes(j - 1)

\* the parser has applied the size function to levels on both sides of the floor
C8_Witness == ddsOut.status = "ok" /\ ddsFile.num_mipmaps >= 5 /\ ddsOut.v.mipmaps # <<>>

----------------------------------------------------------------------------
(* Properties of the VTF codec, checked under SpecVTF *)

VTFKeys(v) == {KeyOrder(v.num_mipmaps, v.num_frames)[k] :
                  k \in 1..(v.num_mipmaps * v.num_frames * 6)}

\* a (7,5) container of the BC6H_UF16 / 256x256 / ENVMAP profile with an Image
\* Data resource, a CMA resource, an ambient table of num_frames entries and
\* every block present, its floats single precision values
VTFValid(v) ==
    /\ v.version = <<7, 5>>
    /\ v.format = Format_BC6H_UF16 /\ v.size = <<256, 256>>
    /\ HasFlag(v.flags, Flags_ENVMAP)
    /\ v.first_frame = 0 /\ v.low_res_format = Format_NONE /\ v.low_res_size = <<0, 0>>
    /\ v.num_frames >= 1
    /\ HasRes(v.resources, "Image Data")
    /\ HasRes(v.resources, "Cubemap Multiply Ambient")
    /\ ~HasRes(v.resources, "Cyclic Redundancy Check")
    /\ v.cma.present /\ Len(v.cma.data) = v.num_frames
    /\ \A i \in 1..Len(v.cma.data) : IsF32(v.cma.data[i])
    /\ \A i \in 1..3 : IsF32(v.reflectivity[i])
    /\ IsF32(v.bumpmap_scale)
    /\ DOMAIN v.mipmaps = VTFKeys(v)
    /\ \A key \in VTFKeys(v) : BLen(v.mipmaps[key]) = BlockBytes(key[1])

(* C2: for every valid VTF value c of the BC6H_UF16 / 256x256 / ENVMAP       *)
(* profile with a populated ambient table, for every frame_count >= 1,       *)
(* VTF.save_as(c) succeeds and VTF.from_stream of the written bytes yields a *)
(* value equal to c.                                                         *)
C2_RoundTrip ==
    (VTFValid(vtf) /\ vtfSave.status # "none")
        => /\ vtfSave.status = "ok"
           /\ vtfOut.status # "none" => (vtfOut.status = "ok" /\ vtfOut.v = vtf)

(* C4: when a key (mip, slot, face) of the declared range is absent from     *)
(* mipmaps, VTF.save_as fails and has written nothing to the target file.    *)
C4_AllOrNothing ==
    /\ (vtfSave.status # "none" /\ DOMAIN vtf.mipmaps # VTFKeys(vtf))
           => vtfSave.status # "ok"
    /\ vtfSave.status = "KeyError" => VTF_file_len(vtfFile) = 0

\* a complete (7,5) header with a complete table of known tags
VTFWellFormed(f) ==
    /\ f.clen = VTF_CORE_LEN /\ f.fixed = VTF_FIXED /\ f.version = <<7, 5>>
    /\ IsFormat(f.format) /\ IsFormat(f.low_res_format)
    /\ Len(f.table) = f.num_resources
    /\ f.header_size = VTF_CORE_LEN + VTF_DESC_LEN * f.num_resources
    /\ \A i \in 1..Len(f.table) :
           f.table[i].tag \in ValidTags /\ (f.table[i].tag = "CRC" => f.table[i].flags = 2)

VTFUnrecognized(f) ==
    /\ ~(f.format = Format_RGBA_8888 /\ f.size = <<64, 64>>)
    /\ ~(f.format = Format_BC6H_UF16 /\ f.size = <<256, 256>>)

\* the header fields of v are those of file f
VTFHeaderOf(v, f) ==
    /\ v.version = f.version /\ v.size = f.size /\ v.flags = f.flags
    /\ v.num_frames = f.num_frames /\ v.first_frame = f.first_frame
    /\ v.reflectivity = f.reflectivity /\ v.bumpmap_scale = f.bumpmap_scale
    /\ v.format = f.format /\ v.num_mipmaps = f.num_mipmaps
    /\ v.low_res_format = f.low_res_format /\ v.low_res_size = f.low_res_size
    /\ v.mipmap_depth = f.mipmap_depth
    /\ Len(v.resources) = f.num_resources

\* what pixel extraction requires of the header (vtf.py:202-206)
VTFPreconditions(f) ==
    /\ HasFlag(f.flags, Flags_ENVMAP)
    /\ f.low_res_format = Format_NONE /\ f.low_res_size = <<0, 0>>
    /\ f.first_frame = 0
    /\ \E i \in 1..Len(f.table) : f.table[i].tag = "IMG"

\* the table has no CMA descriptor, or the file holds at its offset the block
\* [u32 4 * num_frames][num_frames floats] and the descriptor's flag is not 0x02
VTFAmbientReadable(f) ==
    \A i \in 1..Len(f.table) :
        f.table[i].tag = "CMA" =>
            LET at == BDrop(f.body, f.table[i].payload - f.header_size)
            IN /\ f.table[i].flags # 2
               /\ BLen(at) >= 4 + 4 * f.num_frames
               /\ unpack_I(BTake(at, 4)) = 4 * f.num_frames

VTFPixelLen(v) ==
    SumSeq([k \in 1..(v.num_mipmaps * v.num_frames * 6) |->
               BLen(v.mipmaps[KeyOrder(v.num_mipmaps, v.num_frames)[k]])])

VTFHeaderSize(v) == VTF_CORE_LEN + VTF_DESC_LEN * Len(v.resources)

\* the Image Data descriptor as written in the table of file f
VTFImageDesc(f) == f.table[CHOOSE i \in 1..Len(f.table) : f.table[i].tag = "IMG"]

(* C6: after every successful VTF.save_as the Image Data offset is the       *)
(* position at which the first pixel byte is written; that position is       *)
(* header_size when no ambient table is written and header_size + 4 +        *)
(* 4 * frame_count when the container carries an ambient table, also when    *)
(* the table is set while no CMA descriptor is present.                      *)
C6_Original ==
    vtfSave.status = "ok"
        => /\ ResAt(vtf.resources, "Image Data").offset = PyInt(vtfSave.pixel_pos)
           /\ VTFImageDesc(vtfFile).payload = vtfSave.pixel_pos
           /\ ~vtf.cma.present => vtfSave.pixel_pos = VTFHeaderSize(vtf)
           /\ vtf.cma.present
                  => vtfSave.pixel_pos = VTFHeaderSize(vtf) + 4 + 4 * vtf.num_frames

(* C6, amended: after every successful VTF.save_as the Image Data offset,    *)
(* in the container and in the file, is the position at which the first      *)
(* pixel byte is written; that position is header_size when the container    *)
(* has no CMA descriptor (no ambient byte is then written, whether or not    *)
(* an ambient table is set) and header_size + 4 + 4 * frame_count when it    *)
(* has one.                                                                  *)
C6_Amended ==
    vtfSave.status = "ok"
        => /\ ResAt(vtf.resources, "Image Data").offset = PyInt(vtfSave.pixel_pos)
           /\ VTFImageDesc(vtfFile).payload = vtfSave.pixel_pos
           /\ vtfSave.pixel_pos = VTF_file_len(vtfFile) - VTFPixelLen(vtf)
           /\ ~HasRes(vtf.resources, "Cubemap Multiply Ambient")
                  => vtfSave.pixel_pos = VTFHeaderSize(vtf)
           /\ HasRes(vtf.resources, "Cubemap Multiply Ambient")
                  => vtfSave.pixel_pos = VTFHeaderSize(vtf) + 4 + 4 * vtf.num_frames

\* a save has written an ambient block ahead of the pixel data
C6_Witness ==
    /\ vtfSave.status = "ok"
    /\ HasRes(vtf.resources, "Cubemap Multiply Ambient")
    /\ vtfSave.pixel_pos > VTFHeaderSize(vtf)

(* C9: VTF.save_as, whether it succeeds or fails, leaves every field of the  *)
(* container unchanged, the flags and offset of every resource descriptor    *)
(* included, and a second save_as of the same container writes the same      *)
(* bytes; DDS.save_as leaves the DDS value unchanged.                        *)
C9_NoEffect ==
    [][/\ DoVTFSaveAs => (vtf' = vtf /\ (vtfSave.status # "none" => vtfFile' = vtfFile))
       /\ DoDDSSaveAs => dds' = dds]_vars

VTFAmbientDesc(f) == f.table[CHOOSE i \in 1..Len(f.table) : f.table[i].tag = "CMA"]

\* the block [u32 4 * n][n floats] of the ambient scalars data
VTFAmbientBlock(data) ==
    BCat(pack_I(4 * Len(data)), BJoin([i \in 1..Len(data) |-> pack_f(data[i])]))

(* C11: VTF.save_as of a valid container with a CMA resource succeeds; with  *)
(* frame_count = 1 the CMA descriptor is written with flag 0x02 and the 4     *)
(* bytes of the single scalar as its payload and no ambient block is written; *)
(* with frame_count > 1 the descriptor is written with flag 0x00 and payload  *)
(* header_size and the block [u32 4*frame_count][frame_count floats] stands   *)
(* immediately after the descriptor table.                                    *)
C11_AmbientEncoding ==
    (VTFValid(vtf) /\ vtfSave.status # "none")
        => /\ vtfSave.status = "ok"
           /\ vtf.num_frames = 1
                  => /\ VTFAmbientDesc(vtfFile).flags = 2
                     /\ VTFAmbientDesc(vtfFile).payload = F32Bits(vtf.cma.data[1])
                     /\ vtfSave.pixel_pos = VTFHeaderSize(vtf)
                     /\ vtfFile.body = VTF_pixels(vtf).bytes
           /\ vtf.num_frames > 1
                  => /\ VTFAmbientDesc(vtfFile).flags = 0
                     /\ VTFAmbientDesc(vtfFile).payload = VTFHeaderSize(vtf)
                     /\ BTake(vtfFile.body, 4 + 4 * vtf.num_frames)
                            = VTFAmbientBlock(vtf.cma.data)
                     /\ vtfSave.pixel_pos = VTFHeaderSize(vtf) + 4 + 4 * vtf.num_frames

\* the total pixel bytes a recognized .vtf file of n frames of m levels holds
VTFPixelBytes(f) ==
    6 * f.num_frames * SumSeq(VTF_mip_sizes(f.format, f.size, f.num_mipmaps).sizes)

\* the bytes file f holds from the Image Data offset on
VTFPixelsHeld(f) == BLen(VTF_seek(f, VTFImageDesc(f).payload))

\* DDS.from_file did not return a value for a file that ends before its last
\* block, and every block of a value it returned has the size of its level
DDSShortFileFails ==
    ddsOut.status = "ok"
        => /\ BLen(ddsFile.body) >= DDSPixelBytes(ddsFile.num_mipmaps, ddsFile.array_size)
           /\ \A n \in 1..Len(ddsOut.v.mipmaps) :
                  BLen(ddsOut.v.mipmaps[n])
                      = DDS_mip_size((n - 1) % ddsFile.num_mipmaps)

\* the same of VTF.from_stream, for a file of a recognized profile
VTFShortFileFails ==
    (vtfOut.status = "ok" /\ ~VTFUnrecognized(vtfFile))
        => /\ VTFPixelsHeld(vtfFile) >= VTFPixelBytes(vtfFile)
           /\ \A key \in DOMAIN vtfOut.v.mipmaps :
                  BLen(vtfOut.v.mipmaps[key])
                      = VTF_mip_sizes(vtfFile.format, vtfFile.size,
                                      vtfFile.num_mipmaps).sizes[key[1] + 1]

(* C12: a DDS or VTF file that ends before all array_size * mip_count (resp.  *)
(* mip_count * frame_count * 6) blocks of their full size have been read      *)
(* makes DDS.from_file / VTF.from_stream fail; neither ever returns a          *)
(* container holding short or empty mip blocks.                                *)
C12_ShortFileFails == DDSShortFileFails /\ VTFShortFileFails

\* the bytes ahead of block (i, s, f) when n frames of blocks of size sz(j) lie
\* mip_level outer, array_slot middle, face inner
NestedOffset(sz(_), n, i, s, f) ==
    6 * n * SumSeq([j \in 1..i |-> sz(j - 1)]) + (6 * s + f) * sz(i)

\* every block VTF.from_stream returned is the sz(i) bytes of the file that lie
\* NestedOffset past the Image Data offset
VTFReadNested(sz(_)) ==
    LET n == vtfFile.num_frames
        px == VTF_seek(vtfFile, VTFImageDesc(vtfFile).payload)
    IN /\ DOMAIN vtfOut.v.mipmaps = (0..(vtfFile.num_mipmaps - 1)) \X (0..(n - 1)) \X (0..5)
       /\ \A key \in DOMAIN vtfOut.v.mipmaps :
              vtfOut.v.mipmaps[key]
                  = BTake(BDrop(px, NestedOffset(sz, n, key[1], key[2], key[3])), sz(key[1]))

\* every block VTF.save_as wrote lies NestedOffset past the pixel position
VTFWrittenNested(sz(_)) ==
    LET n == vtf.num_frames
        px == VTF_seek(vtfFile, vtfSave.pixel_pos)
    IN \A key \in VTFKeys(vtf) :
           vtf.mipmaps[key]
               = BTake(BDrop(px, NestedOffset(sz, n, key[1], key[2], key[3])), sz(key[1]))

\* a complete file of the 256x256 BC6H_UF16 profile has been parsed
VTFParsedBC6H ==
    /\ vtfOut.status = "ok"
    /\ vtfFile.format = Format_BC6H_UF16 /\ vtfFile.size = <<256, 256>>
    /\ VTFPixelsHeld(vtfFile) >= VTFPixelBytes(vtfFile)

\* a container whose blocks have their level's size has been saved
VTFSavedBC6H ==
    /\ vtfSave.status = "ok"
    /\ \A key \in VTFKeys(vtf) : BLen(vtf.mipmaps[key]) = BlockBytes(key[1])

VTFHasAmbientDesc(f) == \E i \in 1..Len(f.table) : f.table[i].tag = "CMA"

\* a complete one-frame file that meets every precondition of the parser and
\* stores its single ambient scalar inline in the CMA descriptor (flag 0x02)
VTFInlineFile(f) ==
    /\ VTFWellFormed(f) /\ VTFPreconditions(f)
    /\ f.num_frames = 1
    /\ VTFHasAmbientDesc(f) /\ VTFAmbientDesc(f).flags = 2
    /\ ~VTFUnrecognized(f) => VTFPixelsHeld(f) >= VTFPixelBytes(f)

(* C14: after every successful VTF.from_stream the ambient table is present  *)
(* exactly when the resource table has a CMA descriptor, and then it holds    *)
(* frame_count scalars, whether it is stored out of line at the descriptor's  *)
(* offset or inline in the descriptor payload (flag 0x02); and a file using   *)
(* the inline form with frame_count = 1 parses successfully.                  *)
C14_AmbientPresence ==
    /\ vtfOut.status = "ok"
           => /\ vtfOut.v.cma.present <=> VTFHasAmbientDesc(vtfFile)
              /\ vtfOut.v.cma.present => Len(vtfOut.v.cma.data) = vtfFile.num_frames
    /\ (vtfOut.status # "none" /\ VTFInlineFile(vtfFile))
           => /\ vtfOut.status = "ok"
              /\ vtfOut.v.cma.present
              /\ Len(vtfOut.v.cma.data) = 1

----------------------------------------------------------------------------
(* Properties of the index remaps, checked under SpecRemap *)

(* C7: for a DDS mip collection m with len(m) = array_size * mip_count and   *)
(* array_size mod 6 = 0, the driver's loop (A_to_B) is a bijection of the    *)
(* flat indices onto [0,mip_count) x [0,array_size div 6) x [0,6), and       *)
(* save_r2_cubemaps_as_dds (B_to_A) applied to its result returns, per face, *)
(* exactly the blocks of m at their (slot, mip) positions.                   *)
C7_RemapInverse ==
    (/\ ext.status # "none" /\ drv.r2_mips # NoMipmaps
     /\ dds.array_size % 6 = 0
     /\ Len(dds.mipmaps) = dds.array_size * dds.num_mipmaps)
        => LET m == dds.num_mipmaps
               a == dds.array_size
           IN /\ DOMAIN drv.r2_mips = (0..(m - 1)) \X (0..((a \div 6) - 1)) \X (0..5)
              /\ \A x \in 0..(a * m - 1) :
                     drv.r2_mips[<<x % m, (x \div m) \div 6, (x \div m) % 6>>]
                         = dds.mipmaps[x + 1]
              /\ ext.status = "ok"
              /\ Len(ext.files) = a
              /\ \A x \in 0..(a * m - 1) :
                     ext.files[(x \div m) + 1].mipmaps[(x % m) + 1] = dds.mipmaps[x + 1]

\* the driver has read a DDS whose array_size is not a whole number of cubemaps
DriverPartialCubemap ==
    drv.status # "none" /\ dds # DDS_init /\ dds.array_size % 6 # 0

(* C15: the conversion driver proceeds to the remap and to the VTF only when  *)
(* len(mipmaps) = array_size * mip_count and array_size mod 6 = 0; for an      *)
(* array_size that is not a multiple of 6 it stops with an error before        *)
(* remapping, and builds and writes no VTF of array_size div 6 frames.         *)
C15_RejectsPartialCubemap ==
    /\ drv.r2_mips # NoMipmaps
           => /\ Len(dds.mipmaps) = dds.array_size * dds.num_mipmaps
              /\ dds.array_size % 6 = 0
    /\ DriverPartialCubemap
           => /\ drv.status = "AssertionError"
              /\ drv.r2_mips = NoMipmaps
              /\ vtf = VTF_init
              /\ vtfFile = NoVTFFile

====
